---- MODULE Spec2Model ----
(***************************************************************************)
(* Root provider composition of the Liftly front end:                      *)
(*   MainProvider  = <> <ReduxProvider>{children}</ReduxProvider>          *)
(*                      <ToastProvider/> </>                               *)
(*   ReduxProvider = <Provider store={makeStore()}>{children}</Provider>   *)
(*   ToastProvider = <div><Toaster position=... toastOptions=.../></div>   *)
(* The state is the committed element tree of one MainProvider root, the   *)
(* heap of stores that makeStore has constructed, and the store the        *)
(* Provider currently hands to the child subtree.                          *)
(***************************************************************************)
EXTENDS Naturals, Sequences, FiniteSets

VARIABLES mounted,        \* the MainProvider root has rendered at least once
          renders,        \* number of renders of MainProvider / ReduxProvider
          children,       \* the children prop of the last render
          tree,           \* the committed element tree
          stores,         \* heap of constructed stores: stores[id] = state
          providerStore,  \* id of the store given to <Provider>, 0 = none
          toasterMounts   \* number of Toaster host instances mounted so far

vars == <<mounted, renders, children, tree, stores, providerStore, toasterMounts>>

\* ---- bounds ----
MaxRenders == 3
NumUsers == 2

Users == 1..NumUsers
NullStore == 0

\* ---- element trees ----
\* An element: its type, its props (always with a children prop) and kids,
\* the elements rendered directly below it.
Node(type, props, kids) == [type |-> type, props |-> props, kids |-> kids]

Host(type, kids) == Node(type, [children |-> kids], kids)

NoTree == Host("null", <<>>)

ChildTypes == {"Page", "Header", "Layout"}

\* The child subtrees a caller may pass (ReactNode: nothing, one element,
\* several elements, a nested element).
ChildTrees ==
  { <<>>,
    <<Host("Page", <<>>)>>,
    <<Host("Header", <<>>), Host("Page", <<>>)>>,
    <<Host("Layout", <<Host("Page", <<>>)>>)>> }

RECURSIVE Paths(_)
Paths(n) ==
  {<<>>} \cup UNION { { <<i>> \o p : p \in Paths(n.kids[i]) } : i \in 1..Len(n.kids) }

RECURSIVE NodeAt(_, _)
NodeAt(n, p) == IF p = <<>> THEN n ELSE NodeAt(n.kids[Head(p)], Tail(p))

IsPrefix(q, p) == Len(q) <= Len(p) /\ SubSeq(p, 1, Len(q)) = q

PathsOfType(n, t) == { p \in Paths(n) : NodeAt(n, p).type = t }

\* ---- the store (src/shared/config/store/store, imported) ----
InitialState == [user |-> 0]

setUser(u) == [type |-> "setUser", payload |-> u]

reducer(state, action) ==
  IF action.type = "setUser" THEN [state EXCEPT !.user = action.payload] ELSE state

\* makeStore(): a new store instance in its initial state.
makeStore(heap) == [store |-> Len(heap) + 1, heap |-> Append(heap, InitialState)]

\* ---- components ----
ToastProviderShortTimer ==
  Host("div",
    << Node("Toaster",
         [children |-> <<>>,
          position |-> "top-center",
          toastOptions |-> [duration |-> 3000,
                            style |-> [background |-> "#fff",
                                       color |-> "#333",
                                       border |-> "1px solid #319691",
                                       padding |-> "12px 16px"]]],
         <<>>) >>)

ToastProvider ==
  Host("div",
    << Node("Toaster",
         [children |-> <<>>,
          position |-> "top-center",
          toastOptions |-> [duration |-> 4000,
                            style |-> [background |-> "#fff",
                                       color |-> "#333",
                                       border |-> "1px solid #319691",
                                       padding |-> "12px 16px"]]],
         <<>>) >>)

\* ReduxProvider keeping the store in a ref (constructed on the first render only).
ReduxProviderRef(props, heap) ==
  LET r == IF heap = <<>> THEN makeStore(heap) ELSE [store |-> 1, heap |-> heap]
  IN [node |-> Node("ReduxProvider", props,
                    << Node("Provider",
                            [children |-> props.children, store |-> r.store],
                            props.children) >>),
      heap |-> r.heap]

\* ReduxProvider hydrating the new store with a user (dispatch(setUser(..))).
ReduxProviderHydrate(props, heap) ==
  LET r == makeStore(heap)
  IN [node |-> Node("ReduxProvider", props,
                    << Node("Provider",
                            [children |-> props.children, store |-> r.store],
                            props.children) >>),
      heap |-> [r.heap EXCEPT ![r.store] = reducer(@, setUser(1))]]

ReduxProvider(props, heap) ==
  LET r == makeStore(heap)
  IN [node |-> Node("ReduxProvider", props,
                    << Node("Provider",
                            [children |-> props.children, store |-> r.store],
                            props.children) >>),
      heap |-> r.heap]

ToastElement == Node("ToastProvider", [children |-> <<>>], <<ToastProvider>>)

\* MainProvider rendering the children next to, not inside, ReduxProvider.
MainProviderChildrenOutside(props, heap) ==
  LET rp == ReduxProvider([children |-> <<>>], heap)
  IN [node |-> Node("MainProvider", props,
                    << Host("Fragment", <<rp.node>> \o props.children \o <<ToastElement>>) >>),
      heap |-> rp.heap]

\* MainProvider with ToastProvider as a wrapper of ReduxProvider.
MainProviderToastWraps(props, heap) ==
  LET rp == ReduxProvider([children |-> props.children], heap)
  IN [node |-> Node("MainProvider", props,
                    << Host("Fragment",
                         << Node("ToastProvider", [children |-> <<rp.node>>],
                                 << Host("div", <<ToastProvider.kids[1], rp.node>>) >>) >>) >>),
      heap |-> rp.heap]

\* MainProvider with ToastProvider placed after the children inside ReduxProvider.
MainProviderToastAfterChildren(props, heap) ==
  LET rp == ReduxProvider([children |-> props.children \o <<ToastElement>>], heap)
  IN [node |-> Node("MainProvider", props, << Host("Fragment", <<rp.node>>) >>),
      heap |-> rp.heap]

MainProvider(props, heap) ==
  LET rp == ReduxProvider([children |-> props.children], heap)
  IN [node |-> Node("MainProvider", props,
                    << Host("Fragment", <<rp.node, ToastElement>>) >>),
      heap |-> rp.heap]

\* ---- commit: which elements of the new tree are new instances ----
\* An element keeps its instance when it and all its ancestors sit at the
\* same position with the same type as in the previous tree.
Kept(old, new, p) ==
  \A k \in 0..Len(p) :
    LET q == SubSeq(p, 1, k)
    IN q \in Paths(old) /\ NodeAt(old, q).type = NodeAt(new, q).type

FreshMounts(old, new, t) == { p \in PathsOfType(new, t) : ~Kept(old, new, p) }

\* ---- actions ----
Init ==
  /\ mounted = FALSE
  /\ renders = 0
  /\ children = <<>>
  /\ tree = NoTree
  /\ stores = <<>>
  /\ providerStore = NullStore
  /\ toasterMounts = 0

Render(c) ==
  LET r == MainProvider([children |-> c], stores)
      provs == PathsOfType(r.node, "Provider")
  IN /\ renders < MaxRenders
     /\ renders' = renders + 1
     /\ children' = c
     /\ tree' = r.node
     /\ stores' = r.heap
     /\ providerStore' = IF provs = {} THEN NullStore
                         ELSE NodeAt(r.node, CHOOSE p \in provs : TRUE).props.store
     /\ toasterMounts' = toasterMounts + Cardinality(FreshMounts(tree, r.node, "Toaster"))
     /\ mounted' = TRUE

\* the first render of the root
Mount == ~mounted /\ \E c \in ChildTrees : Render(c)

\* a later render of the same root, possibly with other children
Rerender == mounted /\ \E c \in ChildTrees : Render(c)

\* the child subtree dispatches to the store it gets from the Provider
Dispatch ==
  /\ mounted
  /\ providerStore /= NullStore
  /\ \E u \in Users :
       stores' = [stores EXCEPT ![providerStore] = reducer(@, setUser(u))]
  /\ UNCHANGED <<mounted, renders, children, tree, providerStore, toasterMounts>>

Next == Mount \/ Rerender \/ Dispatch

Spec == Init /\ [][Next]_vars

\* ---- observations of the committed tree ----
StoreState == stores[providerStore]

ProviderPaths == PathsOfType(tree, "Provider")
ToastProviderPaths == PathsOfType(tree, "ToastProvider")
ReduxProviderPaths == PathsOfType(tree, "ReduxProvider")
ToasterPaths == PathsOfType(tree, "Toaster")
ChildPaths == { p \in Paths(tree) : NodeAt(tree, p).type \in ChildTypes }

Parent(p) == SubSeq(p, 1, Len(p) - 1)

ProviderAncestors(p) ==
  { q \in ProviderPaths : IsPrefix(q, p) /\ q /= p }

FixedToasterProps ==
  [children |-> <<>>,
   position |-> "top-center",
   toastOptions |-> [duration |-> 4000,
                     style |-> [background |-> "#fff",
                                color |-> "#333",
                                border |-> "1px solid #319691",
                                padding |-> "12px 16px"]]]

\* ---- claims ----

\* C1: on every step of a mounted ReduxProvider the store passed to the
\* Provider is the same instance as before the step (store identity never
\* changes between two consecutive renders).
C1_StoreIdentityStable ==
  [][mounted => providerStore' = providerStore]_vars

\* C2: while the provider is mounted, makeStore has been called exactly
\* once: the number of constructed stores is 1 after any number of renders.
C2_MakeStoreCalledOnce ==
  mounted => Len(stores) = 1

\* C3: each render of MainProvider puts the child subtree inside exactly one
\* Provider: the tree has one Provider, its children are the children given
\* to MainProvider, every child element has exactly one Provider ancestor,
\* and the store of that Provider is a constructed (non-null) store.
C3_ChildrenInOneProvider ==
  mounted =>
    /\ Cardinality(ProviderPaths) = 1
    /\ \A q \in ProviderPaths :
         /\ NodeAt(tree, q).kids = children
         /\ NodeAt(tree, q).props.store /= NullStore
         /\ NodeAt(tree, q).props.store \in 1..Len(stores)
         /\ Cardinality(ReduxProviderPaths) = 1
         /\ \A r \in ReduxProviderPaths : Parent(q) = r
    /\ \A p \in ChildPaths : Cardinality(ProviderAncestors(p)) = 1

C3_Witness ==
  /\ mounted
  /\ renders >= 2
  /\ Len(children) = 2
  /\ \A p \in ChildPaths : Cardinality(ProviderAncestors(p)) = 1
  /\ \E q \in ProviderPaths : NodeAt(tree, q).props.store = renders

\* C4: in every render ToastProvider is a sibling of ReduxProvider and not a
\* wrapper: both have the same parent, no child element is below
\* ToastProvider, ToastProvider is not below ReduxProvider, and
\* ToastProvider is given no children.
C4_ToastIsSibling ==
  mounted =>
    /\ Cardinality(ToastProviderPaths) = 1
    /\ Cardinality(ReduxProviderPaths) = 1
    /\ \A t \in ToastProviderPaths :
         /\ NodeAt(tree, t).props.children = <<>>
         /\ \A p \in ChildPaths : ~IsPrefix(t, p)
         /\ \A r \in ReduxProviderPaths :
              /\ t /= r
              /\ Parent(t) = Parent(r)
              /\ ~IsPrefix(r, t)
              /\ ~IsPrefix(t, r)

C4_Witness ==
  /\ mounted
  /\ renders >= 2
  /\ ChildPaths /= {}
  /\ \E t \in ToastProviderPaths : \E r \in ReduxProviderPaths :
       /\ Parent(t) = Parent(r)
       /\ \A p \in ChildPaths : IsPrefix(r, p) /\ ~IsPrefix(t, p)

\* C5: on every render the toast host has position top-center, duration
\* 4000 and the fixed style, and nothing else; the configuration is the
\* same on all renders.
C5_ToasterConfigFixed ==
  mounted =>
    /\ ToasterPaths /= {}
    /\ \A p \in ToasterPaths : NodeAt(tree, p).props = FixedToasterProps

C5_Witness ==
  /\ mounted
  /\ renders >= 2
  /\ \E p \in ToasterPaths :
       /\ NodeAt(tree, p).props.position = "top-center"
       /\ NodeAt(tree, p).props.toastOptions.duration = 4000

\* C6: a mounted MainProvider has exactly one toast host: the tree holds
\* one Toaster, below ToastProvider, and over all renders exactly one
\* Toaster instance has been mounted.
C6_OneToastHost ==
  mounted =>
    /\ Cardinality(ToasterPaths) = 1
    /\ toasterMounts = 1
    /\ \A p \in ToasterPaths : \E t \in ToastProviderPaths : IsPrefix(t, p)

C6_Witness ==
  /\ mounted
  /\ renders = MaxRenders
  /\ Cardinality(ToasterPaths) = 1
  /\ toasterMounts = 1

\* C7: every render of ReduxProvider constructs one store and gives it to
\* the Provider: after n renders n stores exist and the store in use is the
\* one the last render constructed.
C7_StorePerRender ==
  /\ Len(stores) = renders
  /\ mounted => providerStore = renders

C7_Witness ==
  /\ mounted
  /\ renders = MaxRenders
  /\ Len(stores) = MaxRenders
  /\ providerStore = MaxRenders

\* C8: a render of ReduxProvider dispatches nothing and takes no initial
\* user: the store given to the Provider by a render is in the state
\* makeStore returned, and the only prop of ReduxProvider is children.
C8_NoHydration ==
  [][renders' /= renders =>
       /\ stores'[providerStore'] = InitialState
       /\ \A r \in PathsOfType(tree', "ReduxProvider") :
            DOMAIN NodeAt(tree', r).props = {"children"}]_vars

C8_Witness ==
  /\ mounted
  /\ renders >= 2
  /\ StoreState = InitialState
  /\ \E i \in 1..Len(stores) : stores[i] /= InitialState

\* C9: a re-render does not change the state of the store the subtree is
\* given: the state of the provided store after a re-render equals its state
\* just before the re-render.
C9_StateSurvivesRerender ==
  [][(mounted /\ renders' /= renders) =>
       stores'[providerStore'] = stores[providerStore]]_vars
====
